---- MODULE Spec2Model ----
(***************************************************************************)
(* Model of the code-action resolution pipeline of ruff_server:            *)
(*   crates/ruff_server/src/server/api/requests/code_action_resolve.rs     *)
(*   crates/ruff_server/src/session/settings.rs                            *)
(* A worker receives a codeAction/resolve request, the handler decodes the *)
(* document URL from the data payload, runs with a snapshot, classifies    *)
(* the kind and computes the fix-all or organize-imports edit.             *)
(***************************************************************************)
EXTENDS Integers, Sequences, FiniteSets, TLC

\* ---------------------------------------------------------------- bounds
MaxDiags == 2
MaxVersion == 2
MaxProps == 3

\* ------------------------------------------------------------ Option<T>
None == [tag |-> "None"]
Some(x) == [tag |-> "Some", value |-> x]
IsSome(o) == o.tag = "Some"

\* ------------------------------------------------------------- universe
Workers == {"w1", "w2"}
DocUrl == "file:///a.py"
DataValues == {None, Some([type |-> "String", str |-> DocUrl]),
               Some([type |-> "String", str |-> "not a url"])}
KindValues == {None, Some("SourceFixAll"), Some("SourceOrganizeImports"),
               Some("QuickFix"), Some("refactor")}
DocRules == {"I001", "F401"}
CallerRuleSets == SUBSET {"I001", "F401"}
FixKinds == {"None", "Safe", "Unsafe", "DisplayOnly"}
PropertyNames == {"edit", "command", "kind"}

\* pylint.max-public-methods, the one rule parameter LinterSettings carries here
DefaultMaxPublicMethods == 20

\* The located edits of the fix attached to the i-th violation of a document.
EditsAt(i, n) == [k \in 1..n |-> [range |-> <<i, k>>, new_text |-> "fixed"]]

Violation(i, slot) ==
    [rule |-> slot[1],
     fix |-> IF slot[2] = "None" THEN None
             ELSE Some([applicability |-> slot[2],
                        edits |-> EditsAt(i, IF slot[2] = "Safe" THEN 2 ELSE 1)])]

ViolationLists(maxLen) ==
    UNION {{[i \in 1..n |-> Violation(i, f[i])] : f \in [1..n -> DocRules \X FixKinds]}
           : n \in 0..maxLen}

\* ---------------------------------------------------------------- state
VARIABLES
    document,          \* the open document: version and the violations analysis finds in it
    configuration,     \* the snapshot's shared configuration (configuration().linter)
    caller_configuration, \* value of configuration at session start
    active,            \* the workers serving requests
    pc,                \* per worker: position in the handler
    action,            \* per worker: the CodeAction being resolved
    url,               \* per worker: Option<Url> decoded by document_url
    snapshot,          \* per worker: Option<DocumentSnapshot>
    document_accessed, \* per worker: snapshot.document() has been called
    linter_settings,   \* per worker: Option<LinterSettings>, the owned copy of organize imports
    check_settings,    \* per worker: Option<LinterSettings> handed to lint::check
    diagnostics,       \* per worker: Option<Seq(Diagnostic)>
    response,          \* per worker: Option<result of the request>
    client_capabilities, \* the announced ClientCapabilities
    resolved_client_capabilities \* Option<ResolvedClientCapabilities>

vars == <<document, configuration, caller_configuration, active, pc, action, url,
          snapshot, document_accessed, linter_settings, check_settings,
          diagnostics, response, client_capabilities, resolved_client_capabilities>>

request_vars == <<pc, action, url, snapshot, document_accessed, linter_settings,
                  check_settings, diagnostics, response>>

session_vars == <<document, configuration, caller_configuration, active>>

caps_vars == <<client_capabilities, resolved_client_capabilities>>

\* ------------------------------------------------- external collaborators
\* SupportedCodeActionKind::try_from: the closed set of recognised kinds.
SupportedCodeActionKinds == {"SourceFixAll", "SourceOrganizeImports", "QuickFix"}

try_into(kind) ==
    IF kind \in SupportedCodeActionKinds THEN [ok |-> TRUE, kind |-> kind]
    ELSE [ok |-> FALSE]

\* serde_json::from_value::<Url>: only a string that parses as a URL decodes.
from_value(value) ==
    IF value.type = "String" /\ value.str = DocUrl THEN [ok |-> TRUE, url |-> value.str]
    ELSE [ok |-> FALSE]

\* Applicability::is_safe
is_safe(applicability) == applicability = "Safe"

\* lint::check: the violations of the document whose rule is enabled, in order.
check(doc, settings) ==
    SelectSeq(doc.violations, LAMBDA v : v.rule \in settings.rules)

\* lint::fixes_for_diagnostics (its Ok value): one fix per diagnostic that has one.
RECURSIVE fixes_for_diagnostics(_)
fixes_for_diagnostics(diags) ==
    IF diags = <<>> THEN <<>>
    ELSE (IF IsSome(Head(diags).fix) THEN <<Head(diags).fix.value>> ELSE <<>>)
         \o fixes_for_diagnostics(Tail(diags))

\* Rule::from_code(code).unwrap() on the rule registry
Rule_from_code(code) == code

\* ------------------------------------------------------- pure functions
\* Iterator::flat_map over the edits of each fix, keeping order.
RECURSIVE flat_map_edits(_)
flat_map_edits(fixes) ==
    IF fixes = <<>> THEN <<>>
    ELSE Head(fixes).edits \o flat_map_edits(Tail(fixes))

fix_all_edit_unfiltered(fixes) == flat_map_edits(fixes)

\* fix_all_edit, after analysis: the edits of the safe fixes.
fix_all_edit(fixes) ==
    flat_map_edits(SelectSeq(fixes, LAMBDA fix : is_safe(fix.applicability)))

\* organize_all_edit, after analysis: the edits of every fix.
organize_all_edit(fixes) == flat_map_edits(fixes)

organize_rules_extended(settings) ==
    [settings EXCEPT !.rules = settings.rules \cup {Rule_from_code("I001"), Rule_from_code("I002")}]

\* organize_all_edit, before analysis: the rule set of the owned settings is replaced.
organize_rules(settings) ==
    [settings EXCEPT !.rules = {Rule_from_code("I001"), Rule_from_code("I002")}]

\* types::WorkspaceEdit { changes: Some({url: edits}), ..Default::default() }
WorkspaceEdit(u, edits) ==
    [changes |-> Some([x \in {u} |-> edits]), document_changes |-> None]

resolve_edit_absent_when_empty(act, u, edits) ==
    [act EXCEPT !.edit = IF edits = <<>> THEN None ELSE Some(WorkspaceEdit(u, edits))]

resolve_edit_for_fix_all(act, u, edits) ==
    [act EXCEPT !.edit = Some(WorkspaceEdit(u, edits))]

resolve_edit_versioned(act, u, edits) ==
    [act EXCEPT !.edit = Some([changes |-> None,
                               document_changes |-> Some([x \in {u} |-> edits])])]

resolve_edit_for_organize_imports(act, u, edits) ==
    [act EXCEPT !.edit = Some(WorkspaceEdit(u, edits))]

Err(code) == [tag |-> "Err", code |-> code]
Ok(x) == [tag |-> "Ok", value |-> x]

classify_kind_defaulting(kind) ==
    IF ~IsSome(kind) THEN Err("InvalidParams")
    ELSE IF ~try_into(kind.value).ok THEN Ok("SourceFixAll")
    ELSE Ok(try_into(kind.value).kind)

\* run_with_snapshot: action.kind.ok_or(..)?.try_into().map_err(..)?
classify_kind(kind) ==
    IF ~IsSome(kind) THEN Err("InvalidParams")
    ELSE IF ~try_into(kind.value).ok THEN Err("InvalidParams")
    ELSE Ok(try_into(kind.value).kind)

\* document_url: from_value(params.data.clone().unwrap_or_default()).expect(..)
document_url(params) ==
    from_value(IF IsSome(params.data) THEN params.data.value ELSE [type |-> "Null"])

contains(seq, x) == \E i \in 1..Len(seq) : seq[i] = x

ResolvedClientCapabilities_either(caps) ==
    LET code_action_settings ==
            IF IsSome(caps.text_document) THEN caps.text_document.value.code_action ELSE None
        code_action_data_support ==
            IF IsSome(code_action_settings) /\ IsSome(code_action_settings.value.data_support)
            THEN code_action_settings.value.data_support.value ELSE FALSE
        code_action_edit_resolution ==
            IF IsSome(code_action_settings) /\ IsSome(code_action_settings.value.resolve_support)
            THEN contains(code_action_settings.value.resolve_support.value.properties, "edit")
            ELSE FALSE
    IN [code_action_deferred_edit_resolution |->
            code_action_data_support \/ code_action_edit_resolution]

\* ResolvedClientCapabilities::new
ResolvedClientCapabilities_new(caps) ==
    LET code_action_settings ==
            IF IsSome(caps.text_document) THEN caps.text_document.value.code_action ELSE None
        code_action_data_support ==
            IF IsSome(code_action_settings) /\ IsSome(code_action_settings.value.data_support)
            THEN code_action_settings.value.data_support.value ELSE FALSE
        code_action_edit_resolution ==
            IF IsSome(code_action_settings) /\ IsSome(code_action_settings.value.resolve_support)
            THEN contains(code_action_settings.value.resolve_support.value.properties, "edit")
            ELSE FALSE
    IN [code_action_deferred_edit_resolution |->
            code_action_data_support /\ code_action_edit_resolution]

\* ------------------------------------------------------------- initial
NoCapabilities == [text_document |-> None]

IdleWorkers ==
    /\ pc = [w \in Workers |-> "idle"]
    /\ action = [w \in Workers |-> [kind |-> None, data |-> None, edit |-> None]]
    /\ url = [w \in Workers |-> None]
    /\ snapshot = [w \in Workers |-> None]
    /\ document_accessed = [w \in Workers |-> FALSE]
    /\ linter_settings = [w \in Workers |-> None]
    /\ check_settings = [w \in Workers |-> None]
    /\ diagnostics = [w \in Workers |-> None]
    /\ response = [w \in Workers |-> None]

Session(docs, workers) ==
    /\ document \in docs
    /\ \E rules \in CallerRuleSets :
          configuration = [linter |-> [rules |-> rules,
                                       max_public_methods |-> DefaultMaxPublicMethods]]
    /\ caller_configuration = configuration
    /\ active = workers

Documents ==
    {[version |-> v, violations |-> vs] : v \in 1..MaxVersion, vs \in ViolationLists(MaxDiags)}

\* One worker serving requests one after the other.
Init ==
    /\ Session(Documents, {"w1"})
    /\ IdleWorkers
    /\ client_capabilities = NoCapabilities
    /\ resolved_client_capabilities = Some(ResolvedClientCapabilities_new(NoCapabilities))

\* ------------------------------------------------------------- actions
\* A codeAction/resolve request reaches the handler.
Receive(w) ==
    /\ pc[w] \in {"idle", "done"}
    /\ \E kind \in KindValues, data \in DataValues :
          action' = [action EXCEPT ![w] = [kind |-> kind, data |-> data, edit |-> None]]
    /\ pc' = [pc EXCEPT ![w] = "document_url"]
    /\ url' = [url EXCEPT ![w] = None]
    /\ snapshot' = [snapshot EXCEPT ![w] = None]
    /\ document_accessed' = [document_accessed EXCEPT ![w] = FALSE]
    /\ linter_settings' = [linter_settings EXCEPT ![w] = None]
    /\ check_settings' = [check_settings EXCEPT ![w] = None]
    /\ diagnostics' = [diagnostics EXCEPT ![w] = None]
    /\ response' = [response EXCEPT ![w] = None]
    /\ UNCHANGED <<session_vars, caps_vars>>

\* BackgroundDocumentRequestHandler::document_url: decode the URL or panic.
DocumentUrl(w) ==
    /\ pc[w] = "document_url"
    /\ LET r == document_url(action[w])
       IN IF r.ok
          THEN /\ url' = [url EXCEPT ![w] = Some(r.url)]
               /\ pc' = [pc EXCEPT ![w] = "run_with_snapshot"]
          ELSE /\ url' = url
               /\ pc' = [pc EXCEPT ![w] = "panicked"]
    /\ UNCHANGED <<action, snapshot, document_accessed, linter_settings, check_settings,
                   diagnostics, response, session_vars, caps_vars>>

RunWithSnapshotLazy(w) ==
    /\ pc[w] = "run_with_snapshot"
    /\ snapshot' = [snapshot EXCEPT ![w] = Some([url |-> url[w].value, document |-> document])]
    /\ pc' = [pc EXCEPT ![w] = "classify"]
    /\ UNCHANGED <<action, url, document_accessed, linter_settings, check_settings,
                   diagnostics, response, session_vars, caps_vars>>

\* run_with_snapshot is entered with the snapshot of the document at the decoded
\* URL and reads snapshot.document() first.
RunWithSnapshot(w) ==
    /\ pc[w] = "run_with_snapshot"
    /\ snapshot' = [snapshot EXCEPT ![w] = Some([url |-> url[w].value, document |-> document])]
    /\ document_accessed' = [document_accessed EXCEPT ![w] = TRUE]
    /\ pc' = [pc EXCEPT ![w] = "classify"]
    /\ UNCHANGED <<action, url, linter_settings, check_settings,
                   diagnostics, response, session_vars, caps_vars>>

\* run_with_snapshot: the kind is classified and the match dispatches on it.
Classify(w) ==
    /\ pc[w] = "classify"
    /\ LET k == classify_kind(action[w].kind)
       IN IF k.tag = "Err"
          THEN /\ response' = [response EXCEPT ![w] = Some(Err(k.code))]
               /\ pc' = [pc EXCEPT ![w] = "done"]
          ELSE IF k.value = "SourceFixAll"
          THEN /\ response' = response
               /\ pc' = [pc EXCEPT ![w] = "fix_all_check"]
          ELSE IF k.value = "SourceOrganizeImports"
          THEN /\ response' = response
               /\ pc' = [pc EXCEPT ![w] = "organize_settings"]
          ELSE /\ response' = [response EXCEPT ![w] = Some(Err("InvalidParams"))]
               /\ pc' = [pc EXCEPT ![w] = "done"]
    /\ UNCHANGED <<action, url, snapshot, document_accessed, linter_settings,
                   check_settings, diagnostics, session_vars, caps_vars>>

\* fix_all_edit: lint::check with a reference to the snapshot's linter settings.
FixAllCheck(w) ==
    /\ pc[w] = "fix_all_check"
    /\ check_settings' = [check_settings EXCEPT ![w] = Some(configuration.linter)]
    /\ diagnostics' = [diagnostics EXCEPT ![w] =
                          Some(check(snapshot[w].value.document, configuration.linter))]
    /\ pc' = [pc EXCEPT ![w] = "fix_all_fixes"]
    /\ UNCHANGED <<action, url, snapshot, document_accessed, linter_settings,
                   response, session_vars, caps_vars>>

\* fix_all_edit: fixes_for_diagnostics(..)? then the safe edits; the caller attaches
\* them, and a failure is reported as InternalError.
FixAllFixes(w) ==
    /\ pc[w] = "fix_all_fixes"
    /\ \E failed \in BOOLEAN :
          IF failed
          THEN /\ response' = [response EXCEPT ![w] = Some(Err("InternalError"))]
               /\ action' = action
          ELSE LET edits == fix_all_edit(fixes_for_diagnostics(diagnostics[w].value))
                   resolved == resolve_edit_for_fix_all(action[w], snapshot[w].value.url, edits)
               IN /\ action' = [action EXCEPT ![w] = resolved]
                  /\ response' = [response EXCEPT ![w] = Some(Ok(resolved))]
    /\ pc' = [pc EXCEPT ![w] = "done"]
    /\ UNCHANGED <<url, snapshot, document_accessed, linter_settings, check_settings,
                   diagnostics, session_vars, caps_vars>>

OrganizeSettingsInPlace(w) ==
    /\ pc[w] = "organize_settings"
    /\ configuration' = [configuration EXCEPT !.linter = organize_rules(@)]
    /\ linter_settings' = [linter_settings EXCEPT ![w] = Some(configuration'.linter)]
    /\ pc' = [pc EXCEPT ![w] = "organize_check"]
    /\ UNCHANGED <<action, url, snapshot, document_accessed, check_settings, diagnostics,
                   response, document, caller_configuration, active, caps_vars>>

\* The linter settings are cloned for organize imports and the rule set of the
\* clone is replaced.
OrganizeSettings(w) ==
    /\ pc[w] = "organize_settings"
    /\ linter_settings' = [linter_settings EXCEPT ![w] = Some(organize_rules(configuration.linter))]
    /\ pc' = [pc EXCEPT ![w] = "organize_check"]
    /\ UNCHANGED <<action, url, snapshot, document_accessed, check_settings, diagnostics,
                   response, session_vars, caps_vars>>

\* organize_all_edit: lint::check with the owned settings.
OrganizeCheck(w) ==
    /\ pc[w] = "organize_check"
    /\ check_settings' = [check_settings EXCEPT ![w] = linter_settings[w]]
    /\ diagnostics' = [diagnostics EXCEPT ![w] =
                          Some(check(snapshot[w].value.document, linter_settings[w].value))]
    /\ pc' = [pc EXCEPT ![w] = "organize_fixes"]
    /\ UNCHANGED <<action, url, snapshot, document_accessed, linter_settings,
                   response, session_vars, caps_vars>>

\* organize_all_edit: fixes_for_diagnostics(..)? then every edit; the caller attaches
\* them, and a failure is reported as InternalError.
OrganizeFixes(w) ==
    /\ pc[w] = "organize_fixes"
    /\ \E failed \in BOOLEAN :
          IF failed
          THEN /\ response' = [response EXCEPT ![w] = Some(Err("InternalError"))]
               /\ action' = action
          ELSE LET edits == organize_all_edit(fixes_for_diagnostics(diagnostics[w].value))
                   resolved == resolve_edit_for_organize_imports(action[w],
                                                                 snapshot[w].value.url, edits)
               IN /\ action' = [action EXCEPT ![w] = resolved]
                  /\ response' = [response EXCEPT ![w] = Some(Ok(resolved))]
    /\ pc' = [pc EXCEPT ![w] = "done"]
    /\ UNCHANGED <<url, snapshot, document_accessed, linter_settings, check_settings,
                   diagnostics, session_vars, caps_vars>>

Next ==
    \/ \E w \in active : Receive(w)
    \/ \E w \in active : DocumentUrl(w)
    \/ \E w \in active : RunWithSnapshot(w)
    \/ \E w \in active : Classify(w)
    \/ \E w \in active : FixAllCheck(w)
    \/ \E w \in active : FixAllFixes(w)
    \/ \E w \in active : OrganizeSettings(w)
    \/ \E w \in active : OrganizeCheck(w)
    \/ \E w \in active : OrganizeFixes(w)

Spec == Init /\ [][Next]_vars

\* ------------------------------------------- concurrent resolutions
\* Documents with one import-ordering violation and one other violation.
ConcDocuments ==
    {[version |-> 1,
      violations |-> <<Violation(1, <<"I001", "Safe">>), Violation(2, <<"F401", k>>)>>]
     : k \in FixKinds}

\* Two workers resolving against the same shared configuration.
InitConc ==
    /\ Session(ConcDocuments, Workers)
    /\ IdleWorkers
    /\ client_capabilities = NoCapabilities
    /\ resolved_client_capabilities = Some(ResolvedClientCapabilities_new(NoCapabilities))

SpecConc == InitConc /\ [][Next]_vars

\* ------------------------------------------- capability negotiation
RECURSIVE SeqsUpTo(_, _)
SeqsUpTo(S, n) ==
    IF n = 0 THEN {<<>>}
    ELSE SeqsUpTo(S, n - 1) \cup {Append(q, x) : q \in {r \in SeqsUpTo(S, n - 1) : Len(r) = n - 1}, x \in S}

CodeActionCapabilities ==
    {[data_support |-> ds, resolve_support |-> rs] :
        ds \in {None, Some(TRUE), Some(FALSE)},
        rs \in {None} \cup {Some([properties |-> ps]) : ps \in SeqsUpTo(PropertyNames, MaxProps)}}

AnnouncedCapabilities ==
    {[text_document |-> None], [text_document |-> Some([code_action |-> None])]}
    \cup {[text_document |-> Some([code_action |-> Some(ca)])] : ca \in CodeActionCapabilities}

InitCaps ==
    /\ Session({[version |-> 1, violations |-> <<>>]}, {})
    /\ IdleWorkers
    /\ client_capabilities \in AnnouncedCapabilities
    /\ resolved_client_capabilities = None

\* Session start: the announced capabilities are resolved once.
Negotiate ==
    /\ resolved_client_capabilities = None
    /\ resolved_client_capabilities' = Some(ResolvedClientCapabilities_new(client_capabilities))
    /\ UNCHANGED <<client_capabilities, session_vars, request_vars>>

NextCaps == Negotiate

SpecCaps == InitCaps /\ [][NextCaps]_vars

\* ------------------------------------------------------------ properties
Resolved(w) == IsSome(response[w]) /\ response[w].value.tag = "Ok"

Rejected(w, code) == response[w] = Some(Err(code))

\* The edit list attached to the resolved action of w for the snapshot's URL.
AttachedEdits(w) == response[w].value.value.edit.value.changes.value[snapshot[w].value.url]

InSeq(x, seq) == \E i \in 1..Len(seq) : seq[i] = x

\* The fixes analysis returned to w: those of the diagnostics that carry one.
ReturnedFixes(w) ==
    {diagnostics[w].value[i].fix.value :
        i \in {j \in 1..Len(diagnostics[w].value) : IsSome(diagnostics[w].value[j].fix)}}

\* C1: every edit in the edit set of a resolved SourceFixAll action belongs to a fix
\* classified Safe, and no edit of a fix classified Unsafe or DisplayOnly is in it.
C1_FixAllOnlySafeEdits ==
    \A w \in Workers :
        (Resolved(w) /\ action[w].kind = Some("SourceFixAll")) =>
            /\ \A i \in 1..Len(AttachedEdits(w)) :
                  \E fix \in ReturnedFixes(w) :
                      fix.applicability = "Safe" /\ InSeq(AttachedEdits(w)[i], fix.edits)
            /\ \A fix \in ReturnedFixes(w) :
                  fix.applicability # "Safe" =>
                      \A k \in 1..Len(fix.edits) : ~InSeq(fix.edits[k], AttachedEdits(w))

\* A fix-all resolution whose analysis returned an unsafe fix and then a safe fix,
\* resolved with the edits of the safe fix alone.
C1_Witness ==
    \E w \in Workers :
        /\ Resolved(w) /\ action[w].kind = Some("SourceFixAll")
        /\ Len(diagnostics[w].value) = 2
        /\ IsSome(diagnostics[w].value[1].fix) /\ IsSome(diagnostics[w].value[2].fix)
        /\ diagnostics[w].value[1].fix.value.applicability = "Unsafe"
        /\ diagnostics[w].value[2].fix.value.applicability = "Safe"
        /\ AttachedEdits(w) = diagnostics[w].value[2].fix.value.edits

Survivors(w) ==
    IF action[w].kind = Some("SourceFixAll")
    THEN {fix \in ReturnedFixes(w) : fix.applicability = "Safe"}
    ELSE ReturnedFixes(w)

Ended(w) == pc[w] \in {"done", "panicked"}

\* C4: a request whose data payload is absent or does not decode to a document URI
\* ends in Rejected(InvalidParams), and no snapshot is fetched and no analysis is run.
C4_UndecodableDataRejected ==
    \A w \in Workers :
        (Ended(w) /\ ~document_url(action[w]).ok) =>
            /\ Rejected(w, "InvalidParams")
            /\ snapshot[w] = None
            /\ check_settings[w] = None /\ diagnostics[w] = None

\* C5: a request whose kind is QuickFix always ends in Rejected(InvalidParams),
\* whatever its data payload.
C5_QuickFixRejected ==
    \A w \in Workers :
        (Ended(w) /\ action[w].kind = Some("QuickFix")) => Rejected(w, "InvalidParams")

UnrecognizedKind(kind) == ~IsSome(kind) \/ kind.value \notin SupportedCodeActionKinds

C7_ConfigurationUntouched ==
    /\ configuration = caller_configuration
    /\ \A w \in Workers :
          (action[w].kind = Some("SourceFixAll") /\ IsSome(check_settings[w])) =>
              check_settings[w].value = caller_configuration.linter

\* One worker has specialized its settings for organize imports while the other
\* then analysed for fix-all with a caller configuration that enables another rule.
C7_Witness ==
    \E w \in Workers, v \in Workers :
        /\ w # v
        /\ action[w].kind = Some("SourceOrganizeImports") /\ pc[w] = "organize_check"
        /\ action[v].kind = Some("SourceFixAll") /\ pc[v] = "fix_all_fixes"
        /\ "F401" \in caller_configuration.linter.rules
        /\ linter_settings[w].value # configuration.linter

\* C8: the settings analysis receives on the SourceOrganizeImports path have exactly
\* the rules I001 and I002 active.
C8_OrganizeRulesExact ==
    \A w \in Workers :
        (action[w].kind = Some("SourceOrganizeImports") /\ IsSome(check_settings[w])) =>
            check_settings[w].value.rules = {"I001", "I002"}

\* An organize-imports analysis for a caller that enables F401 and neither import rule.
C8_Witness ==
    \E w \in Workers :
        /\ action[w].kind = Some("SourceOrganizeImports") /\ IsSome(check_settings[w])
        /\ configuration.linter.rules = {"F401"}

\* The client announces data support and resolve support that lists "edit".
AnnouncesDeferredResolution(caps) ==
    /\ caps.text_document # None
    /\ caps.text_document.value.code_action # None
    /\ caps.text_document.value.code_action.value.data_support = Some(TRUE)
    /\ caps.text_document.value.code_action.value.resolve_support # None
    /\ "edit" \in {caps.text_document.value.code_action.value.resolve_support.value.properties[i] :
                     i \in DOMAIN caps.text_document.value.code_action.value.resolve_support.value.properties}

\* C9: negotiation always succeeds, and the deferred-edit-resolution flag is true
\* exactly when the client announces data support and resolve support with "edit".
C9_DeferredExactlyWhenBoth ==
    /\ resolved_client_capabilities = None => ENABLED Negotiate
    /\ IsSome(resolved_client_capabilities) =>
          (resolved_client_capabilities.value.code_action_deferred_edit_resolution
              <=> AnnouncesDeferredResolution(client_capabilities))

\* Negotiated with data support and "edit" listed after another property.
C9_Witness ==
    /\ IsSome(resolved_client_capabilities)
    /\ resolved_client_capabilities.value.code_action_deferred_edit_resolution
    /\ IsSome(client_capabilities.text_document)
    /\ Len(client_capabilities.text_document.value.code_action.value.resolve_support.value.properties) >= 2
    /\ client_capabilities.text_document.value.code_action.value.resolve_support.value.properties[1] # "edit"

====
